---- MODULE Spec2Model ----
(***************************************************************************)
(* DisneyBase.js: the schedule cache, the window selection of GetWaitTimes *)
(* and the access-token cache, as a state machine.  Every callback of the  *)
(* source is one atomic action (JavaScript runs a callback to completion); *)
(* an upstream request in flight is a position of the query that sent it.  *)
(*                                                                         *)
(* Time is in milliseconds, as Date.now().  The park's time zone is taken  *)
(* to be the zone of the clock.  A calendar date string is the number of   *)
(* its day; a formatted time is the instant it denotes, cut to the second. *)
(* A string id is the sequence of its characters.                          *)
(***************************************************************************)
EXTENDS Integers, Sequences, FiniteSets, TLC

VARIABLES
  now,            \* Date.now() / moment()
  park_id,        \* self.park_id ("" when not configured)
  park_region,    \* self.park_region ("" when not configured)
  accessToken,    \* self._accessToken
  scheduleCache,  \* scheduleCache[self.resort_id]
  pc,             \* per query: where the query waits
  startDate,      \* per query: startDate of the refresh it made (0: none)
  endDate,        \* per query: endDate of the refresh it made (0: none)
  bearer,         \* per query: the Authorization token of its request in flight
  result          \* per query: what its callback was called with

vars == <<now, park_id, park_region, accessToken, scheduleCache, pc,
          startDate, endDate, bearer, result>>

----------------------------------------------------------------------------
(* Bounds of the model *)

\* self.scheduleMaxDates: how many days after today a refresh asks for
scheduleMaxDates == 2
\* how many 5-second steps the clock takes
MaxSmallSteps == 1
\* how many 6-hour steps the clock takes
MaxBigSteps == 2

(* Program constants *)

MsPerSecond == 1000
TokenMargin == 30
TokenMinLife == 5

DayMs == 24 * 60 * 60 * MsPerSecond
\* "refetch every 12 hours"
ScheduleLifetime == MsPerSecond * 60 * 60 * 12

SmallStep == 5 * MsPerSecond
BigStep == 6 * 60 * 60 * MsPerSecond
\* the clock starts on day 1 at 18:00
StartTime == DayMs + 18 * 60 * 60 * MsPerSecond

Queries == {"q1", "q2"}

\* JavaScript's null / undefined, and a body JSON.parse rejects
JsNull == [null |-> TRUE]
Garbage == [garbage |-> TRUE]

Has(obj, f) == f \in DOMAIN obj
Delete(obj, f) == [k \in (DOMAIN obj) \ {f} |-> obj[k]]

----------------------------------------------------------------------------
(* moment: days, formats *)

StartOfDay(t) == (t \div DayMs) * DayMs
EndOfDay(t) == StartOfDay(t) + DayMs - 1
\* moment#startOf(units) and moment#endOf(units): without units they
\* return the moment unchanged
MomentStartOf(t, units) == IF units = "day" THEN StartOfDay(t) ELSE t
MomentEndOf(t, units) == IF units = "day" THEN EndOfDay(t) ELSE t
\* format(self.dateFormat) / format("YYYY-MM-DD"): the calendar date
FormatDate(t) == t \div DayMs
\* moment.tz(date, zone): the start of that date
ParseDate(d) == d * DayMs
\* format(self.timeFormat): the instant to the second
FormatTime(t) == (t \div MsPerSecond) * MsPerSecond
\* "HH:mm" is the number of minutes since midnight
ParseHHmm(d, hm) == ParseDate(d) + hm * 60 * MsPerSecond
\* moment#isBetween(a, b): exclusive at both ends
IsBetween(t, a, b) == a < t /\ t < b

----------------------------------------------------------------------------
(* CleanRideID *)

RECURSIVE LeadingRun(_)
LeadingRun(s) ==
  IF s = <<>> \/ Head(s) = ";" THEN <<>>
  ELSE <<Head(s)>> \o LeadingRun(Tail(s))

\* an id passed on as it comes
CleanRideIDRaw(ride_id) == ride_id

CleanRideID(ride_id) ==
  LET capture == LeadingRun(ride_id)
  IN IF capture # <<>> THEN capture ELSE ride_id

----------------------------------------------------------------------------
(* ParseScheduleEntry, ParseScheduleData *)

\* an entry parser that leaves the closing time on the entry's date
ParseScheduleEntrySameDay(entry) ==
  [openingTime |-> FormatTime(ParseHHmm(entry.date, entry.startTime)),
   closingTime |-> FormatTime(ParseHHmm(entry.date, entry.endTime))]

ParseScheduleEntry(entry) ==
  LET openingTime == ParseHHmm(entry.date, entry.startTime)
      closingTime == ParseHHmm(entry.date, entry.endTime)
      closing == IF closingTime < openingTime THEN closingTime + DayMs
                 ELSE closingTime
  IN [openingTime |-> FormatTime(openingTime),
      closingTime |-> FormatTime(closing)]

openingTypes == {"Operating", "Closed", "Refurbishment"}

\* for (var j = 0, x; x = list[j++];): the loop ends at the first falsy element
RECURSIVE TruthyPrefix(_)
TruthyPrefix(list) ==
  IF list = <<>> \/ Head(list) = JsNull THEN <<>>
  ELSE <<Head(list)>> \o TruthyPrefix(Tail(list))

InRange(entry, sd, ed) ==
  LET day == ParseDate(entry.date)
  IN ~(day > ed) /\ ~(day < sd)

\* times[key]: the keys of `times` are date strings, kept in insertion order
HasDate(times, d) == \E i \in 1..Len(times) : times[i].date = d
IndexOfDate(times, d) == CHOOSE i \in 1..Len(times) : times[i].date = d
\* times[dayObj.date] = dayObj
PutDay(times, dayObj) ==
  IF HasDate(times, dayObj.date)
  THEN [times EXCEPT ![IndexOfDate(times, dayObj.date)] = dayObj]
  ELSE Append(times, dayObj)

StandardDay(time) ==
  LET dayObj == ParseScheduleEntry(time)
  IN [openingTime |-> dayObj.openingTime,
      closingTime |-> dayObj.closingTime,
      special |-> <<>>,
      date |-> FormatDate(ParseDate(time.date)),
      type |-> IF time.type = "Operating" THEN "Operating" ELSE "Closed"]

\* first loop: the "normal" operating hours
RECURSIVE StandardPass(_, _, _, _)
StandardPass(schedules, sd, ed, times) ==
  IF schedules = <<>> THEN times
  ELSE LET time == Head(schedules)
       IN StandardPass(Tail(schedules), sd, ed,
            IF time.type \in openingTypes /\ InRange(time, sd, ed)
            THEN PutDay(times, StandardDay(time))
            ELSE times)

SpecialDay(time) ==
  LET dayObj == ParseScheduleEntry(time)
  IN [openingTime |-> dayObj.openingTime,
      closingTime |-> dayObj.closingTime,
      type |-> time.type]

\* a second loop that makes a day of its own of a special entry whose date
\* has no standard entry
RECURSIVE SpecialPassAsDay(_, _, _, _)
SpecialPassAsDay(schedules, sd, ed, times) ==
  IF schedules = <<>> THEN times
  ELSE LET time == Head(schedules)
           dayFormatted == FormatDate(ParseDate(time.date))
       IN SpecialPassAsDay(Tail(schedules), sd, ed,
            IF time.type \notin openingTypes /\ InRange(time, sd, ed)
            THEN IF HasDate(times, dayFormatted)
                 THEN LET i == IndexOfDate(times, dayFormatted)
                      IN [times EXCEPT ![i].special = Append(@, SpecialDay(time))]
                 ELSE Append(times, [StandardDay(time) EXCEPT !.type = time.type])
            ELSE times)

\* second loop: back-fill the special hours
RECURSIVE SpecialPass(_, _, _, _)
SpecialPass(schedules, sd, ed, times) ==
  IF schedules = <<>> THEN times
  ELSE LET time == Head(schedules)
           dayFormatted == FormatDate(ParseDate(time.date))
       IN SpecialPass(Tail(schedules), sd, ed,
            IF time.type \notin openingTypes /\ InRange(time, sd, ed)
               /\ HasDate(times, dayFormatted)
            THEN LET i == IndexOfDate(times, dayFormatted)
                 IN [times EXCEPT ![i].special = Append(@, SpecialDay(time))]
            ELSE times)

ClosedDay(day) ==
  [date |-> FormatDate(day),
   openingTime |-> FormatTime(MomentStartOf(day, "none")),
   closingTime |-> FormatTime(MomentEndOf(day, "none")),
   type |-> "Closed"]

\* third loop: populate any missing days with closed data
RECURSIVE ClosedPass(_, _, _)
ClosedPass(day, ed, times) ==
  IF ~(day <= ed) THEN times
  ELSE ClosedPass(day + DayMs, ed,
         IF ~HasDate(times, FormatDate(day))
         THEN Append(times, ClosedDay(day))
         ELSE times)

\* a parser that leaves the missing days out
ParseActivityNoFill(sched, sd, ed) ==
  LET schedules == TruthyPrefix(sched.schedules)
      standard == StandardPass(schedules, sd, ed, <<>>)
  IN SpecialPass(schedules, sd, ed, standard)

\* the body of the loop over data.activities, for one activity with schedules
ParseActivity(sched, sd, ed) ==
  LET schedules == TruthyPrefix(sched.schedules)
      standard == StandardPass(schedules, sd, ed, <<>>)
      special == SpecialPass(schedules, sd, ed, standard)
  IN ClosedPass(sd, ed, special)

\* schedule[key] = timeArray
PutKey(schedule, key, timeArray) ==
  [k \in (DOMAIN schedule) \cup {key} |->
     IF k = key THEN timeArray ELSE schedule[k]]

RECURSIVE ParseActivities(_, _, _, _)
ParseActivities(activities, sd, ed, schedule) ==
  IF activities = <<>> THEN schedule
  ELSE LET sched == Head(activities)
       IN ParseActivities(Tail(activities), sd, ed,
            IF ~Has(sched, "schedules") THEN schedule
            ELSE PutKey(schedule, CleanRideID(sched.id),
                        ParseActivity(sched, sd, ed)))

\* a parser that adds its sequences to the data already cached
ParsedScheduleMerged(data, sd, ed, t) ==
  LET parsed == ParseActivities(TruthyPrefix(data.activities), sd, ed, <<>>)
      cached == IF scheduleCache = JsNull THEN <<>> ELSE scheduleCache.data
  IN [expires |-> t + ScheduleLifetime,
      data |-> [k \in (DOMAIN parsed) \cup (DOMAIN cached) |->
                  IF k \in DOMAIN parsed THEN parsed[k] ELSE cached[k]]]

\* ParseScheduleData without its failure check: the entry it stores
ParsedSchedule(data, sd, ed, t) ==
  [expires |-> t + ScheduleLifetime,
   data |-> ParseActivities(TruthyPrefix(data.activities), sd, ed, <<>>)]

----------------------------------------------------------------------------
(* GetWaitTimes: building the ride array *)

_expectedRideStatusStrings == {"Operating", "Closed", "Down"}

\* ride.id && ride.name && ride.type && ride.type == "Attraction"
IsAttraction(ride) ==
  /\ Has(ride, "id") /\ ride.id # <<>>
  /\ Has(ride, "name") /\ ride.name # ""
  /\ Has(ride, "type") /\ ride.type = "Attraction"

HasStatus(ride) == Has(ride, "waitTime") /\ Has(ride.waitTime, "status")

RideWaitTime(ride) ==
  IF /\ Has(ride, "waitTime")
     /\ Has(ride.waitTime, "postedWaitMinutes")
     /\ ride.waitTime.postedWaitMinutes # 0
  THEN ride.waitTime.postedWaitMinutes
  ELSE 0

RideActive(ride) == HasStatus(ride) /\ ride.waitTime.status = "Operating"

\* a status passed on as it comes
RideStatusVerbatim(ride) ==
  IF HasStatus(ride) THEN ride.waitTime.status ELSE "Closed"

RideStatus(ride) ==
  IF HasStatus(ride) /\ ride.waitTime.status \in _expectedRideStatusStrings
  THEN ride.waitTime.status
  ELSE "Closed"

\* ride.waitTime.fastPass && ride.waitTime.fastPass.available, for a ride
\* that has a waitTime ("undefined" is JavaScript's undefined)
RideFastPass(ride) ==
  IF Has(ride.waitTime, "fastPass") /\ Has(ride.waitTime.fastPass, "available")
  THEN ride.waitTime.fastPass.available
  ELSE "undefined"

\* reading ride.waitTime.fastPass throws a TypeError when ride.waitTime is
\* undefined, as reading ride.id does when the entry is null
RideThrows(ride) ==
  \/ ride = JsNull
  \/ IsAttraction(ride) /\ ~Has(ride, "waitTime")

LastIndex(S) == IF S = {} THEN 0 ELSE CHOOSE i \in S : \A j \in S : j <= i

\* the scan of the cached windows: the last window of today's date
TodaysSchedule(windows, dateToday) ==
  LastIndex({j \in 1..Len(windows) :
               Has(windows[j], "date") /\ windows[j].date = dateToday})

\* the scan of the cached windows: the last window timeNow is between
ActiveSchedule(windows, timeNow) ==
  LastIndex({j \in 1..Len(windows) :
               IsBetween(timeNow, windows[j].openingTime,
                         windows[j].closingTime)})

\* a selection that prefers today's window to the one now lies in
SelectedIndexTodayFirst(windows, timeNow, dateToday) ==
  LET active == ActiveSchedule(windows, timeNow)
      todaysSchedule == TodaysSchedule(windows, dateToday)
  IN IF todaysSchedule # 0 THEN todaysSchedule
     ELSE IF active # 0 THEN active
     ELSE IF Len(windows) # 0 THEN 1
     ELSE 0

\* the index of the window obj.schedule refers to (0: null)
SelectedIndex(windows, timeNow, dateToday) ==
  LET active == ActiveSchedule(windows, timeNow)
      todaysSchedule == TodaysSchedule(windows, dateToday)
  IN IF active # 0 THEN active
     ELSE IF todaysSchedule # 0 THEN todaysSchedule
     ELSE IF Len(windows) # 0 THEN 1
     ELSE 0

\* an all-day window that is Operating whatever the ride reports
AllDayScheduleOpen(active, timeNow) ==
  [openingTime |-> FormatTime(MomentStartOf(timeNow, "day")),
   closingTime |-> FormatTime(MomentEndOf(timeNow, "day")),
   type |-> "Operating"]

\* the attraction is open "all day"
AllDaySchedule(active, timeNow) ==
  [openingTime |-> FormatTime(MomentStartOf(timeNow, "day")),
   closingTime |-> FormatTime(MomentEndOf(timeNow, "day")),
   type |-> IF active THEN "Operating" ELSE "Closed"]

\* delete obj.schedule.date, where obj.schedule is the cached window itself
StripDate(window) == Delete(window, "date")

\* one accepted ride that does not throw: its record and the cache after it
BuildRide(ride, cache, timeNow) ==
  LET id == CleanRideID(ride.id)
      base == [id |-> id,
               name |-> ride.name,
               waitTime |-> RideWaitTime(ride),
               active |-> RideActive(ride),
               status |-> RideStatus(ride),
               fastPass |-> RideFastPass(ride)]
      with(s) == [k \in (DOMAIN base) \cup {"schedule"} |->
                    IF k = "schedule" THEN s ELSE base[k]]
  IN IF cache # JsNull /\ id \in DOMAIN cache.data
     THEN LET windows == cache.data[id]
              sel == SelectedIndex(windows, timeNow, FormatDate(timeNow))
          IN IF sel = 0
             THEN [obj |-> with(JsNull), cache |-> cache]
             ELSE [obj |-> with(StripDate(windows[sel])),
                   cache |-> [cache EXCEPT
                                !.data[id][sel] = StripDate(windows[sel])]]
     ELSE [obj |-> with(AllDaySchedule(base.active, timeNow)),
           cache |-> cache]

\* the for-loop over data.entries
RECURSIVE BuildRides(_, _, _, _)
BuildRides(entries, rides, cache, timeNow) ==
  IF entries = <<>> THEN [threw |-> FALSE, rides |-> rides, cache |-> cache]
  ELSE LET ride == Head(entries)
       IN IF RideThrows(ride)
          THEN [threw |-> TRUE, rides |-> rides, cache |-> cache]
          ELSE IF ~IsAttraction(ride)
          THEN BuildRides(Tail(entries), rides, cache, timeNow)
          ELSE LET built == BuildRide(ride, cache, timeNow)
               IN BuildRides(Tail(entries), Append(rides, built.obj),
                             built.cache, timeNow)

----------------------------------------------------------------------------
(* What upstream may answer *)

Entry(d, s, e, t) == [date |-> d, startTime |-> s, endTime |-> e, type |-> t]

\* the days the clock of the model passes through
FirstDay == FormatDate(StartTime)

IdA == <<"a">>
IdAx == <<"a", ";", "x">>
IdB == <<"b">>
IdC == <<"c">>
\* ids that begin with the delimiter
IdSemiX == <<";", "x">>
IdSemiY == <<";", "y">>

\* bodies that make a refresh or a live fetch fail: not JSON, null, and an
\* object without the field asked for
FailingBodies == {Garbage, JsNull, [error |-> "unavailable"]}

\* a schedule: an overnight day before a day of normal hours
OvernightSchedule ==
  [activities |->
     << [id |-> IdAx,
         schedules |->
           << Entry(FirstDay, 20 * 60, 2 * 60, "Operating"),
              Entry(FirstDay + 1, 9 * 60, 18 * 60, "Operating") >>] >>]

\* a schedule: entries out of date order with dates missing, a special
\* entry, a refurbishment from 06:00 (an hour the clock of the model
\* strikes), a date out of range, an activity without
\* schedules, an activity whose id begins with the delimiter
SparseSchedule ==
  [activities |->
     << [id |-> IdB,
         schedules |->
           << Entry(FirstDay + 2, 9 * 60, 18 * 60, "Operating"),
              Entry(FirstDay + 2, 18 * 60, 23 * 60, "Extra Magic Hours"),
              Entry(FirstDay + 1, 6 * 60, 18 * 60, "Refurbishment"),
              Entry(FirstDay - 1, 9 * 60, 18 * 60, "Operating") >>],
        [id |-> IdC],
        [id |-> IdSemiY,
         schedules |-> << Entry(FirstDay, 9 * 60, 18 * 60, "Operating") >>] >>]

ScheduleBodies == FailingBodies \cup {OvernightSchedule}

Ride(id, name, type) == [id |-> id, name |-> name, type |-> type]
WithWaitTime(ride, waitTime) ==
  [k \in (DOMAIN ride) \cup {"waitTime"} |->
     IF k = "waitTime" THEN waitTime ELSE ride[k]]

\* live data: an attraction with a cached schedule, an entry that is no
\* attraction, an attraction without a cached schedule
WaitTimesBodies ==
  FailingBodies \cup
  { [entries |->
       << WithWaitTime(Ride(IdAx, "Ride A", "Attraction"),
            [postedWaitMinutes |-> 15, status |-> "Operating",
             fastPass |-> [available |-> "true"]]),
          Ride(IdB, "Restaurant", "Restaurant"),
          WithWaitTime(Ride(IdC, "Ride C", "Attraction"),
            [status |-> "Weather Delay"]) >>] }

\* what MakeNetworkRequest hands FetchURL's callback: err, the response's
\* x-correlation-id header ("" when there is none) and the body
ApiResponses(bodies, correlations) ==
  [err : {FALSE}, correlation : correlations, body : bodies]
    \cup [err : {TRUE}, correlation : correlations,
          body : {Garbage} \cup (bodies \ FailingBodies)]

ScheduleResponses == ApiResponses(ScheduleBodies, {""})
WaitTimesResponses == ApiResponses(WaitTimesBodies, {""})

\* what MakeNetworkRequest hands FetchAccessToken's callback
TokenBodies ==
  { Garbage,
    [access_token |-> "t1"],
    [access_token |-> "t1", expires_in |-> 0],
    [access_token |-> "t1", expires_in |-> 3],
    [access_token |-> "t1", expires_in |-> 5],
    [access_token |-> "t2", expires_in |-> 40] }

TokenResponses ==
  [err : {FALSE}, statusCode : {200}, body : TokenBodies]
    \cup { [err |-> TRUE, statusCode |-> 0, body |-> Garbage],
           [err |-> FALSE, statusCode |-> 500, body |-> Garbage] }

----------------------------------------------------------------------------
(* The state machine *)

NoResult == JsNull
Failure(message) == [error |-> message]
Rides(rides) == [rides |-> rides]

Init ==
  /\ now = StartTime
  /\ \E config \in {<<"mk", "us">>, <<"", "us">>, <<"mk", "">>} :
       park_id = config[1] /\ park_region = config[2]
  /\ accessToken = JsNull
  /\ scheduleCache = JsNull
  /\ pc = [q \in Queries |-> "idle"]
  /\ startDate = [q \in Queries |-> 0]
  /\ endDate = [q \in Queries |-> 0]
  /\ bearer = [q \in Queries |-> ""]
  /\ result = [q \in Queries |-> NoResult]

\* the query ends: its callback is called with an error
Fail(q, message) ==
  /\ pc' = [pc EXCEPT ![q] = "done"]
  /\ result' = [result EXCEPT ![q] = Failure(message)]
  /\ bearer' = [bearer EXCEPT ![q] = ""]
  /\ startDate' = [startDate EXCEPT ![q] = 0]
  /\ endDate' = [endDate EXCEPT ![q] = 0]

\* a test that keeps the token at the instant of its expiry
TokenExpiredLate(token) == token.expires < now

\* GetAccessToken's test of the cached token
TokenExpired(token) == token.expires <= now

TokenPc(url) ==
  IF url = "schedule" THEN "tokenForSchedule" ELSE "tokenForWaitTimes"
RequestPc(url) ==
  IF url = "schedule" THEN "fetchSchedule" ELSE "fetchWaitTimes"

\* a FetchURL that sends its request with whatever credential is cached,
\* expired or not
FetchURLStale(q, url, token) ==
  IF token # JsNull
  THEN /\ accessToken' = token
       /\ pc' = [pc EXCEPT ![q] = RequestPc(url)]
       /\ bearer' = [bearer EXCEPT ![q] = token.token]
  ELSE /\ accessToken' = JsNull
       /\ pc' = [pc EXCEPT ![q] = TokenPc(url)]
       /\ bearer' = [bearer EXCEPT ![q] = ""]

\* FetchURL up to the request it sends: GetAccessToken answers from the
\* cache and the request leaves with the cached token, or the cached token
\* is dropped and FetchAccessToken's request leaves.  `token` is
\* self._accessToken when FetchURL is called.
FetchURL(q, url, token) ==
  IF token # JsNull /\ ~TokenExpired(token)
  THEN /\ accessToken' = token
       /\ pc' = [pc EXCEPT ![q] = RequestPc(url)]
       /\ bearer' = [bearer EXCEPT ![q] = token.token]
  ELSE /\ accessToken' = JsNull
       /\ pc' = [pc EXCEPT ![q] = TokenPc(url)]
       /\ bearer' = [bearer EXCEPT ![q] = ""]

\* a test of the cache with the comparison the wrong way round
ScheduleCachedInverted == scheduleCache # JsNull /\ scheduleCache.expires <= now

\* CacheScheduleData's test of the cache
ScheduleCached == scheduleCache # JsNull /\ scheduleCache.expires >= now

\* a CacheScheduleData that calls back at once, whatever is cached
CacheScheduleDataAtOnce(q) ==
  /\ startDate' = [startDate EXCEPT ![q] = 0]
  /\ endDate' = [endDate EXCEPT ![q] = 0]
  /\ FetchURL(q, "waitTimes", accessToken)

\* CacheScheduleData up to the request it sends
CacheScheduleData(q) ==
  IF ScheduleCached
  THEN /\ startDate' = [startDate EXCEPT ![q] = 0]
       /\ endDate' = [endDate EXCEPT ![q] = 0]
       /\ FetchURL(q, "waitTimes", accessToken)
  ELSE /\ startDate' = [startDate EXCEPT ![q] = MomentStartOf(now, "day")]
       /\ endDate' = [endDate EXCEPT ![q] =
                        MomentEndOf(now + scheduleMaxDates * DayMs, "day")]
       /\ FetchURL(q, "schedule", accessToken)

GetWaitTimes(q) ==
  /\ pc[q] \in {"idle", "done", "threw"}
  /\ IF park_id = "" \/ park_region = ""
     THEN /\ Fail(q, "Park not configured correctly")
          /\ UNCHANGED accessToken
     ELSE /\ result' = [result EXCEPT ![q] = NoResult]
          /\ CacheScheduleData(q)
  /\ UNCHANGED <<now, park_id, park_region, scheduleCache>>

\* a callback that accepts a token of any lifetime
FetchedTokenAnyLife(resp) ==
  IF resp.err \/ resp.statusCode # 200 \/ resp.body = Garbage
  THEN Failure("Failed to get access token")
  ELSE LET data == resp.body
       IN IF /\ data # JsNull
             /\ Has(data, "access_token") /\ data.access_token # ""
             /\ Has(data, "expires_in") /\ data.expires_in # 0
          THEN LET life == IF data.expires_in - TokenMargin > TokenMinLife
                           THEN data.expires_in - TokenMargin
                           ELSE TokenMinLife
               IN [token |-> data.access_token,
                   expires |-> now + life * MsPerSecond]
          ELSE Failure("Invalid body response for access token")

\* FetchAccessToken's callback: the token and expiry it passes on, or an error
FetchedToken(resp) ==
  IF resp.err \/ resp.statusCode # 200 \/ resp.body = Garbage
  THEN Failure("Failed to get access token")
  ELSE LET data == resp.body
       IN IF /\ data # JsNull
             /\ Has(data, "access_token") /\ data.access_token # ""
             /\ Has(data, "expires_in") /\ data.expires_in # 0
          THEN IF data.expires_in < TokenMinLife
               THEN Failure("Expirey time is very low")
               ELSE LET life == IF data.expires_in - TokenMargin > TokenMinLife
                                THEN data.expires_in - TokenMargin
                                ELSE TokenMinLife
                    IN [token |-> data.access_token,
                        expires |-> now + life * MsPerSecond]
          ELSE Failure("Invalid body response for access token")

\* the token request's answer arrives: GetAccessToken caches the token and
\* FetchURL sends its request, or the error runs up to the query's callback
TokenResponse(q, resp) ==
  /\ pc[q] \in {"tokenForSchedule", "tokenForWaitTimes"}
  /\ LET fetched == FetchedToken(resp)
     IN IF Has(fetched, "error")
        THEN /\ Fail(q, IF pc[q] = "tokenForSchedule"
                        THEN "Error getting schedule data cache"
                        ELSE "Error fetching wait times")
             /\ UNCHANGED accessToken
        ELSE /\ accessToken' = fetched
             /\ pc' = [pc EXCEPT ![q] = IF pc[q] = "tokenForSchedule"
                                        THEN "fetchSchedule"
                                        ELSE "fetchWaitTimes"]
             /\ bearer' = [bearer EXCEPT ![q] = fetched.token]
             /\ UNCHANGED <<result, startDate, endDate>>
  /\ UNCHANGED <<now, park_id, park_region, scheduleCache>>

\* a callback that takes an answer's instance id as a sign of life and
\* renews the credential it records it on
WithCorrelationRenewed(token, resp) ==
  IF resp.correlation # "" /\ token # JsNull
  THEN [token |-> token.token,
        expires |-> now + TokenMinLife * MsPerSecond,
        correlation |-> resp.correlation]
  ELSE token

\* FetchURL's callback stores the load balancer's instance id
WithCorrelation(token, resp) ==
  IF resp.correlation # "" /\ token # JsNull
  THEN [k \in (DOMAIN token) \cup {"correlation"} |->
          IF k = "correlation" THEN resp.correlation ELSE token[k]]
  ELSE token

\* failure checks that forget the transport error
ScheduleFailedBodyOnly(resp) ==
  \/ resp.body = Garbage
  \/ resp.body = JsNull
  \/ ~Has(resp.body, "activities")

\* ParseScheduleData's and CacheScheduleData's failure checks
ScheduleFailed(resp) ==
  \/ resp.err
  \/ resp.body = Garbage
  \/ resp.body = JsNull
  \/ ~Has(resp.body, "activities")

\* the schedule's answer arrives: it is parsed and stored and the wait times
\* are asked for, or the error runs up to the query's callback
ScheduleResponse(q, resp) ==
  /\ pc[q] = "fetchSchedule"
  /\ IF ScheduleFailed(resp)
     THEN /\ Fail(q, "Error getting schedule data cache")
          /\ accessToken' = WithCorrelation(accessToken, resp)
          /\ UNCHANGED scheduleCache
     ELSE /\ scheduleCache' =
               ParsedSchedule(resp.body, startDate[q], endDate[q], now)
          /\ FetchURL(q, "waitTimes", WithCorrelation(accessToken, resp))
          /\ UNCHANGED <<result, startDate, endDate>>
  /\ UNCHANGED <<now, park_id, park_region>>

WaitTimesFailed(resp) ==
  \/ resp.err
  \/ resp.body = Garbage
  \/ resp.body = JsNull
  \/ ~Has(resp.body, "entries")

\* the wait times' answer arrives: the ride array is built and returned
WaitTimesResponse(q, resp) ==
  /\ pc[q] = "fetchWaitTimes"
  /\ accessToken' = WithCorrelation(accessToken, resp)
  /\ IF WaitTimesFailed(resp)
     THEN /\ Fail(q, "Error fetching wait times")
          /\ UNCHANGED scheduleCache
     ELSE LET built == BuildRides(resp.body.entries, <<>>, scheduleCache, now)
          IN /\ scheduleCache' = built.cache
             /\ bearer' = [bearer EXCEPT ![q] = ""]
             /\ startDate' = [startDate EXCEPT ![q] = 0]
             /\ endDate' = [endDate EXCEPT ![q] = 0]
             /\ IF built.threw
                THEN /\ pc' = [pc EXCEPT ![q] = "threw"]
                     /\ UNCHANGED result
                ELSE /\ pc' = [pc EXCEPT ![q] = "done"]
                     /\ result' = [result EXCEPT ![q] = Rides(built.rides)]
  /\ UNCHANGED <<now, park_id, park_region>>

\* the clock: how many steps of each size it has taken
SmallSteps == ((now - StartTime) % BigStep) \div SmallStep
BigSteps == (now - StartTime) \div BigStep

Advance(step) ==
  /\ now' = now + step
  /\ UNCHANGED <<park_id, park_region, accessToken, scheduleCache, pc,
                 startDate, endDate, bearer, result>>

AdvanceSeconds == SmallSteps < MaxSmallSteps /\ Advance(SmallStep)
AdvanceHours == BigSteps < MaxBigSteps /\ Advance(BigStep)

Next ==
  \/ \E q \in Queries : GetWaitTimes(q)
  \/ \E q \in Queries : \E resp \in TokenResponses : TokenResponse(q, resp)
  \/ \E q \in Queries : \E resp \in ScheduleResponses :
       ScheduleResponse(q, resp)
  \/ \E q \in Queries : \E resp \in WaitTimesResponses :
       WaitTimesResponse(q, resp)
  \/ AdvanceSeconds
  \/ AdvanceHours

Spec == Init /\ [][Next]_vars

----------------------------------------------------------------------------
(* One query at a fixed time, any short schedule: the parser *)

\* how many schedule entries an activity of a generated schedule holds
MaxEntries == 2

\* entries of a generated schedule: normal hours, an overnight day, a
\* refurbishment and special hours on the same date, a date at the end of
\* the range or after it, special hours and a closed day of other dates,
\* and a null that ends the loop
EntrySet ==
  { Entry(FirstDay, 9 * 60, 18 * 60, "Operating"),
    Entry(FirstDay + 1, 20 * 60, 2 * 60, "Operating"),
    Entry(FirstDay + 1, 9 * 60, 18 * 60, "Refurbishment"),
    Entry(FirstDay + 1, 18 * 60, 23 * 60, "Extra Magic Hours"),
    Entry(FirstDay + scheduleMaxDates + 1, 9 * 60, 18 * 60, "Closed"),
    Entry(FirstDay, 18 * 60, 23 * 60, "Extra Magic Hours"),
    Entry(FirstDay + 2, 10 * 60, 17 * 60, "Closed"),
    JsNull }

SeqsUpTo(S, n) == UNION {[1..k -> S] : k \in 0..n}

ParseBodies ==
  FailingBodies
    \cup {[activities |-> <<[id |-> IdAx, schedules |-> schedules]>>] :
            schedules \in SeqsUpTo(EntrySet, MaxEntries)}
    \cup { SparseSchedule,
           \* two activities of one cleaned id, and one after a null
           [activities |->
              << [id |-> IdA,
                  schedules |-> <<Entry(FirstDay + 1, 9 * 60, 18 * 60, "Operating")>>],
                 [id |-> IdAx, schedules |-> <<>>],
                 JsNull,
                 [id |-> IdB, schedules |-> <<>>] >>] }

ParseResponses == ApiResponses(ParseBodies, {""})

GoodToken == [err |-> FALSE, statusCode |-> 200,
              body |-> [access_token |-> "t1", expires_in |-> 3600]]

InitParse ==
  /\ now \in {StartTime + k * BigStep : k \in 0..MaxBigSteps}
  /\ park_id = "mk" /\ park_region = "us"
  /\ accessToken = JsNull
  /\ scheduleCache = JsNull
  /\ pc = [q \in Queries |-> "idle"]
  /\ startDate = [q \in Queries |-> 0]
  /\ endDate = [q \in Queries |-> 0]
  /\ bearer = [q \in Queries |-> ""]
  /\ result = [q \in Queries |-> NoResult]

NextParse ==
  \/ GetWaitTimes("q1")
  \/ TokenResponse("q1", GoodToken)
  \/ \E resp \in ParseResponses : ScheduleResponse("q1", resp)
  \/ \E resp \in ApiResponses({Garbage}, {""}) : WaitTimesResponse("q1", resp)

SpecParse == InitParse /\ [][NextParse]_vars

----------------------------------------------------------------------------
(* One query, the clock, any short list of live entries: the ride array *)

\* live entries, each of a name of its own: attractions with a cached
\* schedule and without one, every kind of status, entries that are skipped,
\* an attraction without its waitTime object, and an attraction whose id
\* begins with the delimiter
LiveEntries ==
  { WithWaitTime(Ride(IdAx, "A operating", "Attraction"),
      [postedWaitMinutes |-> 15, status |-> "Operating",
       fastPass |-> [available |-> "true"]]),
    WithWaitTime(Ride(IdA, "A down", "Attraction"),
      [postedWaitMinutes |-> 0, status |-> "Down",
       fastPass |-> [reason |-> "none"]]),
    WithWaitTime(Ride(<<"b", ";", "y">>, "B no status", "Attraction"),
      [postedWaitMinutes |-> 30, fastPass |-> [available |-> "false"]]),
    WithWaitTime(Ride(IdC, "C weather", "Attraction"),
      [status |-> "Weather Delay"]),
    WithWaitTime(Ride(IdC, "C operating", "Attraction"),
      [postedWaitMinutes |-> 5, status |-> "Operating"]),
    WithWaitTime(Ride(IdB, "Restaurant", "Restaurant"),
      [status |-> "Operating"]),
    WithWaitTime([name |-> "No id", type |-> "Attraction"],
      [status |-> "Operating"]),
    WithWaitTime(Ride(IdA, "", "Attraction"), [status |-> "Operating"]),
    Ride(IdA, "A no waitTime", "Attraction"),
    WithWaitTime(Ride(IdSemiX, "Semicolon", "Attraction"),
      [status |-> "Operating"]) }

\* lists of one or two live entries
RideBodies ==
  FailingBodies
    \cup {[entries |-> <<>>]}
    \cup {[entries |-> <<a>>] : a \in LiveEntries}
    \cup {[entries |-> <<a, b>>] : a \in LiveEntries, b \in LiveEntries}

RideResponses == ApiResponses(RideBodies, {""})
RideScheduleResponses ==
  ApiResponses(FailingBodies \cup {OvernightSchedule, SparseSchedule}, {"", "c1"})
RideTokenResponses ==
  { [err |-> TRUE, statusCode |-> 0, body |-> Garbage],
    [err |-> FALSE, statusCode |-> 200,
     body |-> [access_token |-> "t2", expires_in |-> 40]] }

NextRides ==
  \/ GetWaitTimes("q1")
  \/ \E resp \in RideTokenResponses : TokenResponse("q1", resp)
  \/ \E resp \in RideScheduleResponses : ScheduleResponse("q1", resp)
  \/ \E resp \in RideResponses : WaitTimesResponse("q1", resp)
  \/ AdvanceSeconds
  \/ AdvanceHours

SpecRides == Init /\ [][NextRides]_vars

----------------------------------------------------------------------------
(* Two queries, the clock in hours, two schedules, two tokens, answers *)
(* with and without a correlation id: requests that overlap              *)

RaceScheduleResponses ==
  ApiResponses(FailingBodies \cup {OvernightSchedule, SparseSchedule}, {"", "c1"})
RaceWaitTimesResponses == ApiResponses(WaitTimesBodies, {"", "c2"})
RaceTokenResponses ==
  RideTokenResponses
    \cup { [err |-> FALSE, statusCode |-> 200,
            body |-> [access_token |-> "t1", expires_in |-> 35]] }

NextRace ==
  \/ \E q \in Queries : GetWaitTimes(q)
  \/ \E q \in Queries : \E resp \in RaceTokenResponses : TokenResponse(q, resp)
  \/ \E q \in Queries : \E resp \in RaceScheduleResponses :
       ScheduleResponse(q, resp)
  \/ \E q \in Queries : \E resp \in RaceWaitTimesResponses :
       WaitTimesResponse(q, resp)
  \/ AdvanceHours

SpecRace == Init /\ [][NextRace]_vars

----------------------------------------------------------------------------
(* Steps of a query, told by its position before and after *)

StartPcs == {"idle", "done", "threw"}
TokenPcs == {"tokenForSchedule", "tokenForWaitTimes"}
RequestPcs == {"fetchSchedule", "fetchWaitTimes"}

\* q's step calls CacheScheduleData: a query starts on a configured park
CallsCacheScheduleData(q) ==
  pc[q] \in StartPcs /\ pc'[q] \in TokenPcs \cup RequestPcs

\* q's step calls GetAccessToken: a query starts, or its refresh is stored
\* and its wait times are asked for
CallsGetAccessToken(q) ==
  \/ CallsCacheScheduleData(q)
  \/ pc[q] = "fetchSchedule" /\ pc'[q] \in {"tokenForWaitTimes", "fetchWaitTimes"}

\* q's step sends a token request
SendsTokenRequest(q) == pc[q] \notin TokenPcs /\ pc'[q] \in TokenPcs

----------------------------------------------------------------------------
(* C1: credential reuse *)

\* C1: a step that calls GetAccessToken while a token is cached and now is
\* before its expiry sends no token request: the query's request leaves with
\* the cached token, which stays cached with its expiry; no step at all
\* sends a token request while the cached token is before its expiry; and a
\* call with no token cached, or at or after the expiry, sends one token
\* request.
CredentialReuse ==
  [][\A q \in Queries :
       LET cached == accessToken # JsNull /\ now < accessToken.expires
       IN /\ cached => ~SendsTokenRequest(q)
          /\ CallsGetAccessToken(q) /\ cached =>
               /\ pc'[q] \in RequestPcs
               /\ bearer'[q] = accessToken.token
               /\ accessToken' # JsNull
               /\ accessToken'.token = accessToken.token
               /\ accessToken'.expires = accessToken.expires
          /\ CallsGetAccessToken(q) /\ ~cached =>
               /\ SendsTokenRequest(q)
               /\ \A p \in Queries \ {q} : pc'[p] = pc[p]]_vars

\* a query that found the schedule cached at a later time than the token
\* was fetched has sent its request with the token still cached
CredentialReuseWitness ==
  /\ pc["q1"] = "fetchWaitTimes" /\ startDate["q1"] = 0
  /\ pc["q2"] = "idle"
  /\ accessToken # JsNull
  /\ bearer["q1"] = accessToken.token
  /\ now < accessToken.expires
  /\ accessToken.expires < now + 2 * TokenMinLife * MsPerSecond

----------------------------------------------------------------------------
(* C2: idempotent freshness *)

\* C2: a CacheScheduleData call made while the resort's entry is cached and
\* now is before its expiry sends no schedule request (and no token request
\* for one) and leaves the entry as it is; a call made with no entry, or
\* after its expiry, starts one refresh.
IdempotentFreshness ==
  [][\A q \in Queries :
       CallsCacheScheduleData(q) =>
         IF scheduleCache # JsNull /\ now < scheduleCache.expires
         THEN /\ pc'[q] \in {"tokenForWaitTimes", "fetchWaitTimes"}
              /\ scheduleCache' = scheduleCache
         ELSE scheduleCache = JsNull \/ scheduleCache.expires < now =>
                /\ pc'[q] \in {"tokenForSchedule", "fetchSchedule"}
                /\ scheduleCache' = scheduleCache]_vars

\* a second call within the lifetime of the first one's result: the entry
\* was stored earlier and a query that made no refresh asks for wait times
IdempotentFreshnessWitness ==
  /\ scheduleCache # JsNull
  /\ scheduleCache.expires < now + ScheduleLifetime
  /\ now < scheduleCache.expires
  /\ pc["q1"] = "fetchWaitTimes" /\ startDate["q1"] = 0
  /\ pc["q2"] = "idle"

----------------------------------------------------------------------------
(* C9: a failed refresh *)

\* the ways a schedule answer fails: a transport error, a body that is no
\* JSON or is empty, a payload without the activities field
RefreshFails(resp) ==
  \/ resp.err
  \/ resp.body \in {Garbage, JsNull}
  \/ ~Has(resp.body, "activities")

\* C9: when a refresh fails (the schedule's answer fails, or no token could
\* be fetched for its request) the query's callback gets an error and the
\* resort's entry, data and expiry, is what it was; and a CacheScheduleData
\* call that finds the entry absent or expired starts a refresh again.
FailedRefreshKeepsCache ==
  [][\A q \in Queries :
       /\ \A resp \in ScheduleResponses :
            RefreshFails(resp) /\ ScheduleResponse(q, resp) =>
              /\ scheduleCache' = scheduleCache
              /\ pc'[q] = "done"
              /\ Has(result'[q], "error")
       /\ pc[q] = "tokenForSchedule" /\ pc'[q] = "done" =>
              /\ scheduleCache' = scheduleCache
              /\ Has(result'[q], "error")
       /\ CallsCacheScheduleData(q)
            /\ (scheduleCache = JsNull \/ scheduleCache.expires < now) =>
              pc'[q] \in {"tokenForSchedule", "fetchSchedule"}]_vars

\* a refresh of an expired entry has failed, the entry is still the expired
\* one, and the other query has started a refresh of it
FailedRefreshKeepsCacheWitness ==
  /\ pc["q1"] = "done" /\ result["q1"] = Failure("Error getting schedule data cache")
  /\ scheduleCache # JsNull /\ scheduleCache.expires < now
  /\ pc["q2"] = "fetchSchedule"

----------------------------------------------------------------------------
(* C3: gap-free coverage at parse time *)

Range(list) == {list[i] : i \in 1..Len(list)}

\* q's step stores the schedule it parsed
StoresSchedule(q) ==
  pc[q] = "fetchSchedule" /\ pc'[q] \in {"tokenForWaitTimes", "fetchWaitTimes"}

\* the places of a sequence that hold a window of date d
WindowsOfDate(windows, d) ==
  {i \in 1..Len(windows) : Has(windows[i], "date") /\ windows[i].date = d}

\* the dates an activity lists a standard entry for
StandardDates(activity) ==
  {e.date : e \in {x \in Range(TruthyPrefix(activity.schedules)) :
                     x.type \in {"Operating", "Closed", "Refurbishment"}}}

\* the activity a stored key comes from: the last one the loop reaches that
\* has schedules and that key
SourceActivity(body, key) ==
  LET activities == TruthyPrefix(body.activities)
      from == {i \in 1..Len(activities) :
                 /\ Has(activities[i], "schedules")
                 /\ CleanRideID(activities[i].id) = key}
  IN activities[CHOOSE i \in from : \A j \in from : j <= i]

\* C3: when ParseScheduleData succeeds for [startDate, endDate], every stored
\* sequence holds exactly one window for each calendar date of the range and
\* no other window, whatever dates the payload lists, in whatever order and
\* however often; and the window of a date the payload has no standard entry
\* for is of type Closed.
GapFreeCoverage ==
  [][\A q \in Queries :
       StoresSchedule(q) =>
         LET range == FormatDate(startDate[q])..FormatDate(endDate[q])
             data == scheduleCache'.data
         IN /\ \A id \in DOMAIN data :
                 /\ Len(data[id]) = Cardinality(range)
                 /\ \A d \in range : Cardinality(WindowsOfDate(data[id], d)) = 1
                 /\ \A i \in 1..Len(data[id]) :
                      Has(data[id][i], "date") /\ data[id][i].date \in range
            /\ \A resp \in ParseResponses :
                 ScheduleResponse(q, resp) /\ ~RefreshFails(resp) =>
                   \A id \in DOMAIN data :
                     \A d \in range \ StandardDates(SourceActivity(resp.body, id)) :
                       \A i \in WindowsOfDate(data[id], d) :
                         data[id][i].type = "Closed"]_vars

\* a schedule was stored whose payload listed a later date only: the
\* sequence starts with the listed date and the dates before it follow
GapFreeCoverageWitness ==
  /\ pc["q1"] = "fetchWaitTimes"
  /\ scheduleCache # JsNull
  /\ scheduleCache.expires = now + ScheduleLifetime
  /\ \E id \in DOMAIN scheduleCache.data :
       LET windows == scheduleCache.data[id]
       IN /\ Len(windows) = scheduleMaxDates + 1
          /\ Has(windows[1], "special")
          /\ \E i \in 2..Len(windows) :
               /\ ~Has(windows[i], "special")
               /\ windows[i].type = "Closed"
               /\ windows[i].date < windows[1].date

----------------------------------------------------------------------------
(* C4: coverage of the current days by a fresh entry *)

\* C4: whenever the resort's entry is fresh (its expiry has not passed),
\* every cached sequence holds a window for each calendar date from the
\* current day to the current day + scheduleMaxDates.
FreshCacheCoversCurrentDays ==
  scheduleCache # JsNull /\ now <= scheduleCache.expires =>
    \A id \in DOMAIN scheduleCache.data :
      \A d \in FormatDate(now)..(FormatDate(now) + scheduleMaxDates) :
        WindowsOfDate(scheduleCache.data[id], d) # {}

----------------------------------------------------------------------------
(* C5: the cached schedule is not changed in place *)

\* C5: a step that stores no refreshed schedule changes nothing of the
\* resort's entry: no window of it loses or changes a field.
CacheNeverMutatedInPlace ==
  [][(\A q \in Queries : ~StoresSchedule(q)) => scheduleCache' = scheduleCache]_vars

----------------------------------------------------------------------------
(* C6, C7, C8, C10: the ride array *)

\* q's step returns a ride array
ReturnsRides(q) == pc[q] = "fetchWaitTimes" /\ Has(result'[q], "rides")

\* how often an id occurs in a ride array
Occurrences(rides, id) == Cardinality({i \in 1..Len(rides) : rides[i].id = id})

\* C6: of the cached windows of a ride, its record gets (1) a window whose
\* opening and closing time now lies between, if there is one, whichever
\* window is of today's date; (2) else the window of today's date, if there
\* is one; (3) else the first window; (4) null if there is no window.  The
\* windows are those cached when the record is built; for a ride the array
\* holds once they are those cached when the answer arrives.
WindowPrecedence ==
  [][\A q \in Queries :
       ReturnsRides(q) =>
         \A k \in 1..Len(result'[q].rides) :
           LET r == result'[q].rides[k]
               windows == scheduleCache.data[r.id]
               around == {i \in 1..Len(windows) :
                            /\ windows[i].openingTime < now
                            /\ now < windows[i].closingTime}
               today == WindowsOfDate(windows, FormatDate(now))
               attached(i) == /\ r.schedule # JsNull
                              /\ ~Has(r.schedule, "date")
                              /\ r.schedule = Delete(windows[i], "date")
           IN r.id \in DOMAIN scheduleCache.data =>
                /\ around # {} =>
                     /\ r.schedule # JsNull
                     /\ r.schedule.openingTime < now
                     /\ now < r.schedule.closingTime
                /\ Occurrences(result'[q].rides, r.id) = 1 =>
                     /\ around # {} => \E i \in around : attached(i)
                     /\ around = {} /\ today # {} => \E i \in today : attached(i)
                     /\ around = {} /\ today = {} /\ Len(windows) > 0 => attached(1)
                     /\ Len(windows) = 0 => r.schedule = JsNull]_vars

\* a ride was given the window that opened yesterday and is still open,
\* while another window of its schedule is of today's date
WindowPrecedenceWitness ==
  /\ pc["q1"] = "done" /\ Has(result["q1"], "rides")
  /\ scheduleCache # JsNull
  /\ \E k \in 1..Len(result["q1"].rides) :
       LET r == result["q1"].rides[k]
       IN /\ r.id \in DOMAIN scheduleCache.data
          /\ r.schedule # JsNull
          /\ r.schedule.openingTime < StartOfDay(now)
          /\ now < r.schedule.closingTime
          /\ \E i \in WindowsOfDate(scheduleCache.data[r.id], FormatDate(now)) :
               scheduleCache.data[r.id][i].openingTime # r.schedule.openingTime

\* the live entry a record was built from: the names of LiveEntries differ
EntryNamed(name) == CHOOSE e \in LiveEntries : e.name = name

\* the status string of a live entry ("" when it has none)
LiveStatus(e) ==
  IF Has(e, "waitTime") /\ Has(e.waitTime, "status") THEN e.waitTime.status ELSE ""

\* C7: the status of every returned record is Operating, Closed or Down: the
\* live status when that is one of the three, and Closed when it is another
\* or missing; and the record is active exactly when the live status is
\* Operating.
StatusCoercion ==
  \A q \in Queries :
    Has(result[q], "rides") =>
      \A k \in 1..Len(result[q].rides) :
        LET r == result[q].rides[k]
            live == LiveStatus(EntryNamed(r.name))
        IN /\ r.status \in {"Operating", "Closed", "Down"}
           /\ live \in {"Operating", "Closed", "Down"} => r.status = live
           /\ live \notin {"Operating", "Closed", "Down"} => r.status = "Closed"
           /\ r.active <=> live = "Operating"
           /\ r.active => r.status = "Operating"

\* records of a status outside the vocabulary, of a missing status and of
\* the status Down were returned
StatusCoercionWitness ==
  /\ Has(result["q1"], "rides")
  /\ Len(result["q1"].rides) = 2
  /\ result["q1"].rides[1].name = "C weather"
  /\ result["q1"].rides[1].status = "Closed"
  /\ result["q1"].rides[2].name \in {"B no status", "A down"}

\* C8: a ride whose cleaned id has no entry in the cached schedule gets a
\* window from the start of the current day to its last second, of type
\* Operating exactly when the record is active and Closed otherwise; the
\* step adds no entry to the cache for it, and a step that builds records
\* of such rides only leaves the cache as it is.
NoScheduleFallback ==
  [][\A q \in Queries :
       ReturnsRides(q) =>
         LET rides == result'[q].rides
             absent(r) == r.id \notin DOMAIN scheduleCache.data
         IN /\ \A k \in 1..Len(rides) :
                 absent(rides[k]) =>
                   LET schedule == rides[k].schedule
                   IN /\ schedule # JsNull
                      /\ DOMAIN schedule = {"openingTime", "closingTime", "type"}
                      /\ schedule.openingTime = StartOfDay(now)
                      /\ schedule.closingTime <= EndOfDay(now)
                      /\ EndOfDay(now) - schedule.closingTime < MsPerSecond
                      /\ schedule.type =
                           IF rides[k].active THEN "Operating" ELSE "Closed"
            /\ DOMAIN scheduleCache'.data = DOMAIN scheduleCache.data
            /\ (\A k \in 1..Len(rides) : absent(rides[k])) =>
                 scheduleCache' = scheduleCache]_vars

\* an operating ride and a ride of an unknown status, neither with a cached
\* schedule, were returned with their all-day windows
NoScheduleFallbackWitness ==
  /\ pc["q1"] = "done" /\ Has(result["q1"], "rides")
  /\ scheduleCache # JsNull
  /\ IdC \notin DOMAIN scheduleCache.data
  /\ Len(result["q1"].rides) = 2
  /\ result["q1"].rides[1].name = "C operating"
  /\ result["q1"].rides[1].schedule.type = "Operating"
  /\ result["q1"].rides[2].name = "C weather"
  /\ result["q1"].rides[2].schedule.type = "Closed"

\* the entries GetWaitTimes is to build a record for
AcceptedEntry(e) ==
  /\ e # JsNull
  /\ Has(e, "id") /\ e.id # <<>>
  /\ Has(e, "name") /\ e.name # ""
  /\ Has(e, "type") /\ e.type = "Attraction"

\* C10: whenever the live answer holds an entries list, GetWaitTimes ends
\* with a ride array of one record for each entry with an id, a name and the
\* type Attraction, in their order, and of no other record; and the record
\* of an entry without its waitTime object has waitTime 0, is not active and
\* has a falsy fastPass.
AssemblyNeverErrors ==
  [][\A q \in Queries :
       \A resp \in RideResponses :
         /\ WaitTimesResponse(q, resp)
         /\ ~resp.err
         /\ resp.body \notin {Garbage, JsNull}
         /\ Has(resp.body, "entries")
         => /\ pc'[q] = "done"
            /\ Has(result'[q], "rides")
            /\ LET accepted == SelectSeq(resp.body.entries, AcceptedEntry)
                   rides == result'[q].rides
               IN /\ Len(rides) = Len(accepted)
                  /\ \A k \in 1..Len(accepted) :
                       /\ rides[k].name = accepted[k].name
                       /\ ~Has(accepted[k], "waitTime") =>
                            /\ rides[k].waitTime = 0
                            /\ rides[k].active = FALSE
                            /\ rides[k].fastPass \in {"undefined", "false"}]_vars

----------------------------------------------------------------------------
(* C11: overnight normalization *)

\* the standard entries of an activity that are of date d
StandardEntriesOf(activity, d) ==
  {e \in Range(TruthyPrefix(activity.schedules)) :
     e.type \in {"Operating", "Closed", "Refurbishment"} /\ e.date = d}

\* the special entries of an activity that are of date d
SpecialEntriesOf(activity, d) ==
  {e \in Range(TruthyPrefix(activity.schedules)) :
     e.type \notin {"Operating", "Closed", "Refurbishment"} /\ e.date = d}

\* window w is what entry e parses to: it opens on e's date at e's start
\* time; it closes at e's end time, on the next day when the end time is
\* before the start time and on e's date otherwise
ParsedFrom(w, e) ==
  /\ w.openingTime = ParseHHmm(e.date, e.startTime)
  /\ e.endTime < e.startTime =>
       /\ FormatDate(w.closingTime) = e.date + 1
       /\ w.closingTime = ParseHHmm(e.date + 1, e.endTime)
  /\ e.endTime >= e.startTime => w.closingTime = ParseHHmm(e.date, e.endTime)

\* C11: every window and every special window a parse stores comes from an
\* entry of its date and closes on the day after that date when the entry's
\* end time is before its start time; no stored window closes before it
\* opens.
OvernightNormalization ==
  [][\A q \in Queries :
       \A resp \in ParseResponses :
         ScheduleResponse(q, resp) /\ ~RefreshFails(resp) =>
           LET data == scheduleCache'.data
           IN \A id \in DOMAIN data :
                \A i \in 1..Len(data[id]) :
                  LET w == data[id][i]
                      source == SourceActivity(resp.body, id)
                  IN /\ w.openingTime <= w.closingTime
                     /\ Has(w, "special") =>
                          /\ \E e \in StandardEntriesOf(source, w.date) :
                               ParsedFrom(w, e)
                          /\ \A k \in 1..Len(w.special) :
                               /\ w.special[k].openingTime <= w.special[k].closingTime
                               /\ \E e \in SpecialEntriesOf(source, w.date) :
                                    ParsedFrom(w.special[k], e)]_vars

\* a window of an entry that ends before it starts was stored: it closes on
\* the day after its date, before the hour it opened at
OvernightNormalizationWitness ==
  /\ pc["q1"] = "fetchWaitTimes"
  /\ scheduleCache # JsNull
  /\ \E id \in DOMAIN scheduleCache.data :
       \E i \in 1..Len(scheduleCache.data[id]) :
         LET w == scheduleCache.data[id][i]
         IN /\ Has(w, "special")
            /\ FormatDate(w.closingTime) = w.date + 1
            /\ FormatDate(w.openingTime) = w.date
            /\ w.closingTime - DayMs < w.openingTime

----------------------------------------------------------------------------
(* C12: credential lifetime *)

\* a token answer that arrived with status 200 and a body that names a
\* token and a lifetime in seconds
NamesLifetime(resp) ==
  /\ ~resp.err /\ resp.statusCode = 200
  /\ resp.body \notin {Garbage, JsNull}
  /\ Has(resp.body, "access_token") /\ Has(resp.body, "expires_in")

Max(a, b) == IF a > b THEN a ELSE b

\* C12: a token answer of a lifetime under 5 seconds ends the query with an
\* error and leaves the cached credential as it is, no token of that answer
\* cached; an answer of a longer lifetime caches its token with the expiry
\* now + max(expires_in - 30, 5) seconds, which is 5 seconds or more after
\* now and not after now + expires_in seconds.
CredentialLifetime ==
  [][\A q \in Queries :
       \A resp \in TokenResponses :
         TokenResponse(q, resp) /\ NamesLifetime(resp) =>
           LET seconds == resp.body.expires_in
           IN /\ seconds < 5 =>
                   /\ pc'[q] = "done"
                   /\ Has(result'[q], "error")
                   /\ accessToken' = accessToken
              /\ seconds >= 5 =>
                   /\ accessToken' # JsNull
                   /\ accessToken'.token = resp.body.access_token
                   /\ accessToken'.expires = now + Max(seconds - 30, 5) * 1000
                   /\ accessToken'.expires >= now + 5 * 1000
                   /\ accessToken'.expires <= now + seconds * 1000
                   /\ pc'[q] \in RequestPcs]_vars

\* the token of an answer of 40 seconds has just been cached, to expire in
\* 10 seconds, and the query's request has left with it
CredentialLifetimeWitness ==
  /\ accessToken # JsNull
  /\ accessToken.token = "t2"
  /\ accessToken.expires = now + 10 * 1000
  /\ pc["q1"] \in RequestPcs
  /\ bearer["q1"] = "t2"

----------------------------------------------------------------------------
(* C13: id cleaning *)

\* the part of an id before its first delimiter (the id, if it has none)
BeforeDelimiter(id) ==
  LET at == {i \in 1..Len(id) : id[i] = ";"}
  IN IF at = {} THEN id
     ELSE SubSeq(id, 1, (CHOOSE i \in at : \A j \in at : i <= j) - 1)

BeginsWithDelimiter(id) == id # <<>> /\ id[1] = ";"

\* the raw ids of the activities a parse stores a sequence for
StoredRawIds(body) ==
  {a.id : a \in {x \in Range(TruthyPrefix(body.activities)) : Has(x, "schedules")}}

\* C13 as stated: every cache key and every record id is the part of its raw
\* id before the first delimiter, so that none holds the delimiter (the raw
\* id of a record is that of the live entry of its name).
IdCleaningOfEveryId ==
  [][\A q \in Queries :
       /\ StoresSchedule(q) =>
            \A resp \in RideScheduleResponses :
              ScheduleResponse(q, resp) /\ ~RefreshFails(resp) =>
                /\ DOMAIN scheduleCache'.data =
                     {BeforeDelimiter(raw) : raw \in StoredRawIds(resp.body)}
                /\ \A key \in DOMAIN scheduleCache'.data : ";" \notin Range(key)
       /\ ReturnsRides(q) =>
            LET rides == result'[q].rides
            IN \A k \in 1..Len(rides) :
                 /\ rides[k].id = BeforeDelimiter(EntryNamed(rides[k].name).id)
                 /\ ";" \notin Range(rides[k].id)]_vars

\* what an id is cleaned to: an id that begins with the delimiter stays as
\* it is, any other id is cut before its first delimiter
Cleaned(raw) ==
  IF BeginsWithDelimiter(raw) THEN raw ELSE BeforeDelimiter(raw)

\* C13: every cache key and every record id is Cleaned of its raw id: the
\* part before the first delimiter, without a delimiter, unless the raw id
\* begins with the delimiter; and a record whose cleaned id is a key of the
\* cached schedule gets one of that key's windows, not the all-day window.
IdCleaning ==
  [][\A q \in Queries :
       /\ StoresSchedule(q) =>
            \A resp \in RideScheduleResponses :
              ScheduleResponse(q, resp) /\ ~RefreshFails(resp) =>
                /\ DOMAIN scheduleCache'.data =
                     {Cleaned(raw) : raw \in StoredRawIds(resp.body)}
                /\ \A raw \in StoredRawIds(resp.body) :
                     ~BeginsWithDelimiter(raw) =>
                       /\ BeforeDelimiter(raw) \in DOMAIN scheduleCache'.data
                       /\ ";" \notin Range(BeforeDelimiter(raw))
       /\ ReturnsRides(q) =>
            LET rides == result'[q].rides
            IN \A k \in 1..Len(rides) :
                 LET raw == EntryNamed(rides[k].name).id
                 IN /\ rides[k].id = Cleaned(raw)
                    /\ ~BeginsWithDelimiter(raw) => ";" \notin Range(rides[k].id)
                    /\ BeforeDelimiter(raw) \in DOMAIN scheduleCache.data
                         /\ ~BeginsWithDelimiter(raw) =>
                           rides[k].schedule \in
                             {Delete(w, "date") :
                                w \in Range(scheduleCache.data[rides[k].id])}]_vars

\* a ride of raw id "a;x" was returned under the id "a" with a window of the
\* schedule stored under "a", next to a ride whose id begins with the
\* delimiter and is returned as it came
IdCleaningWitness ==
  /\ pc["q1"] = "done" /\ Has(result["q1"], "rides")
  /\ scheduleCache # JsNull /\ IdA \in DOMAIN scheduleCache.data
  /\ Len(result["q1"].rides) = 2
  /\ result["q1"].rides[1].name = "A operating"
  /\ result["q1"].rides[1].id = IdA
  /\ Has(result["q1"].rides[1].schedule, "special")
  /\ result["q1"].rides[2].name = "Semicolon"
  /\ result["q1"].rides[2].id = IdSemiX

----------------------------------------------------------------------------
(* C14: date-ordered storage *)

\* C14: every sequence a parse stores is in strictly ascending order of
\* date, whatever dates the payload lists and in whatever order, so that
\* its first window is the one of startDate.
DateOrderedStorage ==
  [][\A q \in Queries :
       StoresSchedule(q) =>
         LET data == scheduleCache'.data
         IN \A id \in DOMAIN data :
              /\ \A i \in 1..Len(data[id]) : \A j \in 1..Len(data[id]) :
                   i < j => data[id][i].date < data[id][j].date
              /\ Len(data[id]) > 0 =>
                   data[id][1].date = FormatDate(startDate[q])]_vars

----------------------------------------------------------------------------
(* C15: half-open containment *)

\* C15: a window contains now when openingTime <= now < closingTime.  The
\* record of a ride gets a window that contains now, if its cached sequence
\* has one: a window that opens at now is one, a window that closes at now
\* is none, and with no such window the record gets today's window.
HalfOpenContainment ==
  [][\A q \in Queries :
       ReturnsRides(q) =>
         \A k \in 1..Len(result'[q].rides) :
           LET r == result'[q].rides[k]
               windows == scheduleCache.data[r.id]
               around == {i \in 1..Len(windows) :
                            /\ windows[i].openingTime <= now
                            /\ now < windows[i].closingTime}
               today == WindowsOfDate(windows, FormatDate(now))
           IN r.id \in DOMAIN scheduleCache.data
                /\ Occurrences(result'[q].rides, r.id) = 1 =>
                /\ around # {} =>
                     \E i \in around : r.schedule = Delete(windows[i], "date")
                /\ around = {} /\ today # {} =>
                     \E i \in today : r.schedule = Delete(windows[i], "date")]_vars

----------------------------------------------------------------------------
(* C16: special entries *)

\* the entries of an activity that are of date d and standard, or special,
\* in the order of the payload
EntriesOf(activity, d, standard) ==
  LET Wanted(e) == /\ e.date = d
                   /\ (e.type \in {"Operating", "Closed", "Refurbishment"}) = standard
  IN SelectSeq(TruthyPrefix(activity.schedules), Wanted)

\* C16: in every sequence a parse stores, the window of a date the payload
\* has a standard entry for is of the type of the last such entry,
\* Operating staying Operating and Closed and Refurbishment giving Closed,
\* and its special list holds the special entries of that date, each with
\* its own type and hours, in the order of the payload; the window of a
\* date without a standard entry is a Closed window without a special list,
\* whatever special entries the payload has for that date; and no window is
\* of another type than Operating or Closed.
SpecialEntries ==
  [][\A q \in Queries :
       StoresSchedule(q) =>
         \A resp \in ParseResponses :
           ScheduleResponse(q, resp) /\ ~RefreshFails(resp) =>
             LET data == scheduleCache'.data
             IN \A id \in DOMAIN data :
                  \A i \in 1..Len(data[id]) :
                    LET w == data[id][i]
                        source == SourceActivity(resp.body, id)
                        standard == EntriesOf(source, w.date, TRUE)
                        special == EntriesOf(source, w.date, FALSE)
                    IN /\ w.type \in {"Operating", "Closed"}
                       /\ standard = <<>> =>
                            ~Has(w, "special") /\ w.type = "Closed"
                       /\ standard # <<>> =>
                            /\ w.type = "Operating" <=>
                                 standard[Len(standard)].type = "Operating"
                            /\ Has(w, "special")
                            /\ Len(w.special) = Len(special)
                            /\ \A k \in 1..Len(special) :
                                 /\ w.special[k].type = special[k].type
                                 /\ ParsedFrom(w.special[k], special[k])
                                 /\ DOMAIN w.special[k] =
                                      {"openingTime", "closingTime", "type"}]_vars

\* a schedule is stored in which special hours hang on the window of their
\* date and a refurbishment has given a Closed window
SpecialEntriesWitness ==
  /\ pc["q1"] = "fetchWaitTimes"
  /\ scheduleCache # JsNull
  /\ \E id \in DOMAIN scheduleCache.data :
       LET windows == scheduleCache.data[id]
       IN /\ \E i \in 1..Len(windows) :
               /\ Has(windows[i], "special")
               /\ Len(windows[i].special) = 1
               /\ windows[i].special[1].type = "Extra Magic Hours"
               /\ windows[i].type = "Operating"
          /\ \E i \in 1..Len(windows) :
               /\ Has(windows[i], "special")
               /\ windows[i].special = <<>>
               /\ windows[i].type = "Closed"

----------------------------------------------------------------------------
(* C17: refreshes that overlap *)

\* q made a refresh and its schedule is stored
HasStored(q) ==
  pc[q] \in {"tokenForWaitTimes", "fetchWaitTimes"} /\ startDate[q] # 0

\* C17: nothing holds a query back while the refresh of another is in
\* flight: a CacheScheduleData call that finds the entry absent or expired
\* starts a refresh of its own, and a GetAccessToken call that finds no
\* token, or an expired one, sends a token request of its own; and whenever
\* a refresh is stored, the resort's entry is the whole result of that one
\* answer for that query's range, with nothing of the entry it replaces.
DuplicateRefresh ==
  [][\A q \in Queries :
       /\ CallsCacheScheduleData(q)
            /\ (scheduleCache = JsNull \/ scheduleCache.expires < now) =>
              pc'[q] \in {"tokenForSchedule", "fetchSchedule"}
       /\ CallsGetAccessToken(q)
            /\ (accessToken = JsNull \/ accessToken.expires <= now) =>
              pc'[q] \in TokenPcs
       /\ StoresSchedule(q) =>
            \E resp \in RaceScheduleResponses :
              /\ ~RefreshFails(resp)
              /\ scheduleCache'.expires = now + 12 * 60 * 60 * 1000
              /\ scheduleCache'.data =
                   ParseActivities(TruthyPrefix(resp.body.activities),
                                   startDate[q], endDate[q], <<>>)]_vars

\* two refreshes of one expired entry, asked for on different days, were
\* both in flight and both have been stored: the entry is the result of
\* one of them, for its range
DuplicateRefreshWitness ==
  /\ HasStored("q1") /\ HasStored("q2")
  /\ startDate["q1"] < startDate["q2"]
  /\ scheduleCache # JsNull
  /\ \A id \in DOMAIN scheduleCache.data :
       \A i \in 1..Len(scheduleCache.data[id]) :
         /\ FormatDate(startDate["q1"]) <= scheduleCache.data[id][i].date
         /\ scheduleCache.data[id][i].date <= FormatDate(endDate["q1"])
  /\ IdB \in DOMAIN scheduleCache.data

----------------------------------------------------------------------------
(* C18: the order of a query's steps *)

WaitTimesPcs == {"tokenForWaitTimes", "fetchWaitTimes"}
SchedulePcs == {"tokenForSchedule", "fetchSchedule"}

\* C18: a query turns to the wait times (their request, or the token request
\* for it) only from its start with the resort's entry cached and not
\* expired, or from the schedule's answer with that answer stored; it gets
\* records only on the arrival of the wait times' answer; on a park without
\* id or region it sends nothing and ends with an error; and a schedule
\* step or a wait times' answer that fails ends it with an error and no
\* records.
QueryStepOrdering ==
  [][\A q \in Queries :
       /\ pc[q] \notin WaitTimesPcs /\ pc'[q] \in WaitTimesPcs =>
            \/ /\ pc[q] \in StartPcs
               /\ scheduleCache # JsNull /\ scheduleCache.expires >= now
               /\ scheduleCache' = scheduleCache
            \/ /\ pc[q] = "fetchSchedule"
               /\ scheduleCache' # JsNull
               /\ scheduleCache'.expires = now + ScheduleLifetime
       /\ Has(result'[q], "rides") /\ result'[q] # result[q] =>
            pc[q] = "fetchWaitTimes" /\ pc'[q] = "done"
       /\ pc[q] \in StartPcs /\ pc'[q] # pc[q] /\ (park_id = "" \/ park_region = "") =>
            pc'[q] = "done" /\ Has(result'[q], "error")
       /\ park_id = "" \/ park_region = "" =>
            /\ pc'[q] \in {"idle", "done"}
            /\ bearer'[q] = ""
            /\ accessToken' = JsNull
       /\ pc[q] \in SchedulePcs /\ pc'[q] \notin SchedulePcs \cup WaitTimesPcs =>
            pc'[q] = "done" /\ Has(result'[q], "error")
       /\ pc[q] = "tokenForWaitTimes" /\ pc'[q] \notin WaitTimesPcs =>
            pc'[q] = "done" /\ Has(result'[q], "error")
       /\ pc[q] = "fetchWaitTimes" =>
            \A resp \in WaitTimesResponses :
              /\ (resp.err \/ resp.body \in {Garbage, JsNull}
                    \/ ~Has(resp.body, "entries"))
              /\ WaitTimesResponse(q, resp)
              => pc'[q] = "done" /\ Has(result'[q], "error")]_vars

\* one query has got its records, with a schedule stored; the fetch of the
\* wait times of the other has failed and it has ended with the error
QueryStepOrderingWitness ==
  /\ pc["q1"] = "done" /\ Has(result["q1"], "rides")
  /\ scheduleCache # JsNull
  /\ pc["q2"] = "done"
  /\ result["q2"] = Failure("Error fetching wait times")

----------------------------------------------------------------------------
(* C19: the correlation id *)

\* q's step is the arrival of the answer to its request
AnswerArrives(q) == pc[q] \in RequestPcs /\ pc'[q] # pc[q]

\* the answers with a correlation id that q's request may get
AnswersTo(q) ==
  {resp \in IF pc[q] = "fetchSchedule" THEN RaceScheduleResponses
            ELSE RaceWaitTimesResponses : resp.correlation # ""}

\* q's step is the arrival of resp
Arrives(q, resp) ==
  IF pc[q] = "fetchSchedule" THEN ScheduleResponse(q, resp)
  ELSE WaitTimesResponse(q, resp)

\* C19: the arrival of an answer leaves the cached credential's token and
\* expiry as they are, whatever credential the request was sent with (the
\* only other thing that may happen to the credential in that step is that
\* the next request finds it expired and drops it); an answer with a
\* correlation id leaves that id on the credential that stays cached; with
\* no credential cached the step records nothing and goes on as it would;
\* and a credential with a correlation id is reused and dropped by its
\* expiry like any other.
CorrelationFrame ==
  [][\A q \in Queries :
       /\ AnswerArrives(q) =>
            /\ accessToken = JsNull => accessToken' = JsNull
            /\ accessToken # JsNull =>
                 \/ /\ accessToken' = JsNull
                    /\ accessToken.expires <= now
                    /\ pc'[q] = "tokenForWaitTimes"
                 \/ /\ accessToken' # JsNull
                    /\ accessToken'.token = accessToken.token
                    /\ accessToken'.expires = accessToken.expires
                    /\ DOMAIN accessToken' \in
                         {DOMAIN accessToken, DOMAIN accessToken \cup {"correlation"}}
                    /\ \A resp \in AnswersTo(q) :
                         \/ /\ Has(accessToken', "correlation")
                            /\ accessToken'.correlation = resp.correlation
                         \/ ~Arrives(q, resp)
            /\ pc'[q] \in {"done", "threw", "tokenForWaitTimes", "fetchWaitTimes"}
       /\ CallsGetAccessToken(q)
            /\ accessToken # JsNull /\ Has(accessToken, "correlation") =>
              IF now < accessToken.expires
              THEN pc'[q] \in RequestPcs /\ bearer'[q] = accessToken.token
              ELSE pc'[q] \in TokenPcs /\ accessToken' = JsNull]_vars

\* an answer has left its correlation id on the cached credential, and the
\* request of a query is in flight that was sent with an earlier credential
CorrelationFrameWitness ==
  /\ accessToken # JsNull
  /\ Has(accessToken, "correlation")
  /\ accessToken.token = "t1"
  /\ pc["q1"] \in RequestPcs /\ bearer["q1"] = "t2"
  /\ pc["q2"] = "done"

----------------------------------------------------------------------------
(* C20: a query repeated at once *)

\* two records carry the same window: both none, or the same opening time,
\* closing time and type
SameWindow(a, b) ==
  IF a = JsNull \/ b = JsNull THEN a = b
  ELSE /\ a.openingTime = b.openingTime
       /\ a.closingTime = b.closingTime
       /\ a.type = b.type

\* C20: when a query returns its records, the query that follows it at
\* once (at the same time, on the same live payload, with the cached
\* schedule as the first one leaves it and no refresh) gives every ride
\* the window the first one gave it.
RepeatQueryDeterminism ==
  [][\A q \in Queries :
       ReturnsRides(q) =>
         \A resp \in RideResponses :
           /\ ~resp.err
           /\ resp.body \notin {Garbage, JsNull}
           /\ Has(resp.body, "entries")
           /\ WaitTimesResponse(q, resp)
           => LET first == result'[q].rides
                  again == BuildRides(resp.body.entries, <<>>, scheduleCache', now)
              IN /\ ~again.threw
                 /\ Len(again.rides) = Len(first)
                 /\ \A k \in 1..Len(first) :
                      Occurrences(first, first[k].id) = 1 =>
                        /\ again.rides[k].id = first[k].id
                        /\ SameWindow(again.rides[k].schedule, first[k].schedule)]_vars

----------------------------------------------------------------------------
(* C21: the bearer of every request *)

\* q's step builds an authenticated request (FetchURL's headers) and sends it
IssuesRequest(q) == pc'[q] \in RequestPcs /\ pc'[q] # pc[q]

\* C21: whatever the other query does in between, every step that builds an
\* authenticated request builds it while a credential is cached, attaches
\* that credential's token, and the credential's expiry is later than the
\* time the request is issued; and a call of GetAccessToken that finds a
\* cached credential at or after its expiry clears it and sends a token
\* request instead of returning it.
ValidBearer ==
  [][\A q \in Queries :
       /\ IssuesRequest(q) =>
            /\ accessToken' # JsNull
            /\ bearer'[q] = accessToken'.token
            /\ accessToken'.expires > now'
       /\ ( /\ CallsGetAccessToken(q)
            /\ accessToken # JsNull
            /\ accessToken.expires <= now )
          => /\ accessToken' = JsNull
             /\ pc'[q] \in TokenPcs
             /\ bearer'[q] = ""]_vars

\* q1's request is in flight with the token it was built with, time has
\* passed, and q2 found the credential expired: it is cleared and q2's token
\* request is out
ValidBearerWitness ==
  /\ pc["q1"] \in RequestPcs /\ bearer["q1"] = "t2"
  /\ pc["q2"] \in TokenPcs
  /\ accessToken = JsNull
  /\ now > StartTime

====
